---- MODULE Spec2Model ----
(***************************************************************************)
(* PerformanceProfiler (src/src/monitoring/Profiler.js) as a state machine. *)
(*                                                                         *)
(* All handlers run on one event loop, so each handler (an API call, a     *)
(* timer callback, a perf_hooks entry, an I/O completion) is one atomic    *)
(* action.  Time is the reading of Date.now() in milliseconds, relative to *)
(* the reading at construction.                                            *)
(***************************************************************************)
EXTENDS Integers, Sequences, FiniteSets, TLC

VARIABLES
    now,          \* Date.now()
    given,        \* the config argument of the constructor
    config,       \* this.config (the fields the handlers read)
    isRunning,    \* this.isRunning
    session,      \* this.session: 0 is null, n > 0 the n-th inspector.Session
    created,      \* number of inspector.Session objects constructed so far
    conns,        \* the Session objects that are connected
    monitors,     \* live setInterval timers of _startPerformanceMonitoring
    autoProfiles, \* live setInterval timers of _startAutoProfile
    metrics,      \* this.metrics: [cpu, memory, gc, operations]
    performanceMarks, \* this.performanceMarks: Map name -> mark
    profiles,     \* this.profiles: Map id -> CapturedProfile
    files,        \* artifact files present in outputDir
    captures,     \* profileCPU / takeHeapSnapshot promises not yet settled
    memoryProfiles, \* profileMemory promises not yet settled
    emitted,      \* events emitted by the last handler, in order
    call,         \* the last handler that ran
    ret,          \* outcome of the last handler for its caller
    cleanupLog,   \* what the last cleanupProfiles did
    bottlenecks,  \* return value of the last detectBottlenecks
    flame         \* input and return value of the last _processProfileNodes

vars == << now, given, config, isRunning, session, created, conns, monitors,
           autoProfiles, metrics, performanceMarks, profiles, files, captures,
           memoryProfiles, emitted, call, ret, cleanupLog, bottlenecks,
           flame >>

----------------------------------------------------------------------------
(* Program constants *)

OneHour == 3600000
OneMinute == 60000
FiveMinutes == 300000
SlowMs == 1000
FrequentCount == 5
LastSamples == 10
CpuUsageDefault == 80
GcFrequencyDefault == 10
MiB == 1024 * 1024
MemoryUsageDefault == 512 * MiB
GrowthLimit == MiB
SampleInterval == 100
ProfileDurationDefault == 30000
HeapSnapshotIntervalDefault == 300000

(* Bounds of the model *)

MaxTicks == 2        \* steps of the clock
MaxStarts == 2       \* inspector.Session objects constructed
MaxBuf == 1          \* records per metric buffer (Spec)
MaxCaptures == 1     \* captures in flight
MaxProfiles == 2     \* profiles registered or being captured (SpecRetention)
MaxGC == 11          \* GC events buffered (SpecGC)
MaxMem == 10         \* memory samples buffered (SpecMem)
MaxRecs == 7         \* operation records buffered (SpecOps)
MaxSamples == 4      \* samples of a CPU profile (SpecFlame)
MaxCycles == 2       \* auto-profile cycles in flight (SpecAuto)
MaxMemoryProfiles == 1   \* profileMemory calls in flight (SpecMemory)

NoCleanup ==
    [maxAge |-> 0, again |-> FALSE, attempted |-> {}, unlinked |-> {},
     removed |-> {}]
NoFlame == [nodes |-> << >>, samples |-> << >>, timeDeltas |-> << >>,
            out |-> << >>]

(* this.metrics.operations is a Map: a sequence of [name, records] entries *)
(* in insertion order, at most one entry per name.                         *)
EmptyMetrics ==
    [cpu |-> << >>, memory |-> << >>, gc |-> << >>, operations |-> << >>]

(* An object is a function from its own keys.  {} has no keys. *)
NoConfig == [k \in {} |-> 0]

ThresholdNames == {"cpuUsage", "memoryUsage", "gcFrequency"}

DefaultThresholds ==
    [cpuUsage |-> CpuUsageDefault, memoryUsage |-> MemoryUsageDefault,
     gcFrequency |-> GcFrequencyDefault]

(* { ...base, ...over } *)
Spread(base, over) ==
    [k \in DOMAIN base \cup DOMAIN over |->
        IF k \in DOMAIN over THEN over[k] ELSE base[k]]

(* cfg.performanceThresholds?.[k] || DefaultThresholds[k] *)
OrDefault(cfg, k) ==
    IF /\ "performanceThresholds" \in DOMAIN cfg
       /\ k \in DOMAIN cfg.performanceThresholds
       /\ cfg.performanceThresholds[k] # 0
    THEN cfg.performanceThresholds[k]
    ELSE DefaultThresholds[k]

(* the performanceThresholds literal of the constructor *)
ThresholdsLiteral(cfg) ==
    Spread([k \in ThresholdNames |-> OrDefault(cfg, k)],
           IF "performanceThresholds" \in DOMAIN cfg
           THEN cfg.performanceThresholds
           ELSE NoConfig)

(* this.config.performanceThresholds: the trailing ...config puts the     *)
(* caller's own performanceThresholds over the literal's.                  *)
PerformanceThresholds(cfg) ==
    Spread([performanceThresholds |-> ThresholdsLiteral(cfg)],
           cfg).performanceThresholds

(* cfg[k] || d, which the trailing ...config sets back to cfg[k] when cfg  *)
(* has the key                                                             *)
OwnOr(cfg, k, d) == IF k \in DOMAIN cfg THEN cfg[k] ELSE d

(* this.config as the handlers read it: the thresholds they compare with,  *)
(* autoProfile (cfg.autoProfile ?? false) and the two periods of the       *)
(* auto-profile mode.                                                      *)
EffectiveConfig(cfg) ==
    Spread(PerformanceThresholds(cfg),
           [autoProfile |-> OwnOr(cfg, "autoProfile", FALSE),
            profileDuration |->
                OwnOr(cfg, "profileDuration", ProfileDurationDefault),
            heapSnapshotInterval |->
                OwnOr(cfg, "heapSnapshotInterval",
                      HeapSnapshotIntervalDefault)])

DefaultConfig == EffectiveConfig(NoConfig)

(* this.config.performanceThresholds[k] is not undefined *)
Configured(k) == k \in DOMAIN config

(* The state after `new PerformanceProfiler(cfg)`. *)
InitWith(cfg, profile) ==
    /\ now = 0
    /\ given = cfg
    /\ config = EffectiveConfig(cfg)
    /\ isRunning = FALSE
    /\ session = 0
    /\ created = 0
    /\ conns = {}
    /\ monitors = 0
    /\ autoProfiles = 0
    /\ metrics = EmptyMetrics
    /\ performanceMarks = << >>
    /\ profiles = [p \in {} |-> 0]
    /\ files = {}
    /\ captures = << >>
    /\ memoryProfiles = << >>
    /\ emitted = << >>
    /\ call = "new"
    /\ ret = "ok"
    /\ cleanupLog = NoCleanup
    /\ bottlenecks = << >>
    /\ flame = profile

Init == InitWith(NoConfig, NoFlame)

(* Every handler records itself. *)
Called(op) == call' = op

RECURSIVE SumLen(_)
SumLen(entries) ==
    IF entries = << >> THEN 0
    ELSE Len(Head(entries).records) + SumLen(Tail(entries))


----------------------------------------------------------------------------
(* The clock advances by d milliseconds. *)
Tick(d) ==
    /\ now' = now + d
    /\ Called("tick")
    /\ emitted' = << >>
    /\ ret' = "ok"
    /\ UNCHANGED << given, config, isRunning, session, created, conns,
                    monitors, metrics, profiles, files, captures,
                    cleanupLog, bottlenecks, flame, autoProfiles,
                    performanceMarks, memoryProfiles >>

----------------------------------------------------------------------------
(* Session lifecycle *)

(* start() past its isRunning guard.  outcome is what the inspector does:  *)
(* "open_fails" (inspector.open() throws), "connect_fails"                 *)
(* (session.connect() throws) or "ok".                                     *)
StartSession(outcome) ==
    /\ created < MaxStarts
    /\ isRunning' = TRUE
    /\ IF outcome = "open_fails"
       THEN /\ ret' = "error"
            /\ emitted' = << >>
            /\ UNCHANGED << session, created, conns, monitors,
                            autoProfiles >>
       ELSE /\ created' = created + 1
            /\ session' = created + 1
            /\ IF outcome = "connect_fails"
               THEN /\ ret' = "error"
                    /\ emitted' = << >>
                    /\ UNCHANGED << conns, monitors, autoProfiles >>
               ELSE /\ conns' = conns \cup {created + 1}
                    /\ monitors' = monitors + 1
                    /\ autoProfiles' = IF config.autoProfile
                                       THEN autoProfiles + 1
                                       ELSE autoProfiles
                    /\ emitted' = << "started" >>
                    /\ ret' = "ok"

StartUnguarded(outcome) ==
    /\ Called("start")
    /\ StartSession(outcome)
    /\ UNCHANGED << now, given, config, metrics, profiles, files, captures,
                    cleanupLog, bottlenecks, flame,
                    performanceMarks, memoryProfiles >>

Start(outcome) ==
    /\ Called("start")
    /\ IF isRunning
       THEN /\ ret' = "ok"
            /\ emitted' = << >>
            /\ UNCHANGED << isRunning, session, created, conns, monitors,
                            autoProfiles >>
       ELSE StartSession(outcome)
    /\ UNCHANGED << now, given, config, metrics, profiles, files, captures,
                    cleanupLog, bottlenecks, flame,
                    performanceMarks, memoryProfiles >>

(* stop() past its isRunning guard. *)
StopSession ==
    /\ isRunning' = FALSE
    /\ IF session # 0
       THEN /\ conns' = conns \ {session}
            /\ session' = 0
       ELSE UNCHANGED << conns, session >>
    /\ emitted' = << "stopped" >>
    /\ ret' = "ok"

StopClearing ==
    /\ Called("stop")
    /\ IF ~isRunning
       THEN /\ ret' = "ok"
            /\ emitted' = << >>
            /\ UNCHANGED << isRunning, session, conns, metrics >>
       ELSE /\ StopSession
            /\ metrics' = EmptyMetrics
    /\ UNCHANGED << now, given, config, created, monitors, profiles, files,
                    captures, cleanupLog, bottlenecks, flame,
                    autoProfiles, performanceMarks, memoryProfiles >>

Stop ==
    /\ Called("stop")
    /\ IF ~isRunning
       THEN /\ ret' = "ok"
            /\ emitted' = << >>
            /\ UNCHANGED << isRunning, session, conns >>
       ELSE StopSession
    /\ UNCHANGED << now, given, config, created, monitors, metrics, profiles,
                    files,
                    captures, cleanupLog, bottlenecks, flame,
                    autoProfiles, performanceMarks, memoryProfiles >>

----------------------------------------------------------------------------
(* Sampler *)

KeepNewer(buffer, limit) ==
    SelectSeq(buffer, LAMBDA r : r.timestamp > limit)

KeepNotOlder(buffer, limit) ==
    SelectSeq(buffer, LAMBDA r : r.timestamp >= limit)

RecentInclusive(buffer, age) == KeepNotOlder(buffer, now - age)

(* buffer.filter(r => r.timestamp > Date.now() - age) *)
Recent(buffer, age) == KeepNewer(buffer, now - age)

(* _collectSystemMetrics with process.memoryUsage().heapUsed = heapUsed *)
CollectSystemMetrics(heapUsed) ==
    /\ metrics' =
         [metrics EXCEPT
            !.memory = Recent(Append(@, [timestamp |-> now,
                                         heapUsed |-> heapUsed]), OneHour),
            !.cpu = Recent(Append(@, [timestamp |-> now]), OneHour)]
    /\ emitted' = IF Configured("memoryUsage") /\ heapUsed > config.memoryUsage
                  THEN << "high-memory-usage" >>
                  ELSE << >>

SamplerTickUnguarded(heapUsed) ==
    /\ monitors > 0
    /\ Called(IF isRunning THEN "sample" ELSE "samplerCleared")
    /\ ret' = "ok"
    /\ CollectSystemMetrics(heapUsed)
    /\ UNCHANGED << now, given, config, isRunning, session, created, conns,
                    monitors, autoProfiles, performanceMarks, profiles,
                    files, captures, memoryProfiles, cleanupLog,
                    bottlenecks, flame >>

(* One tick of a live sampler interval. *)
SamplerTick(heapUsed) ==
    /\ monitors > 0
    /\ Called(IF isRunning THEN "sample" ELSE "samplerCleared")
    /\ ret' = "ok"
    /\ IF ~isRunning
       THEN /\ monitors' = monitors - 1
            /\ emitted' = << >>
            /\ UNCHANGED metrics
       ELSE /\ CollectSystemMetrics(heapUsed)
            /\ UNCHANGED monitors
    /\ UNCHANGED << now, given, config, isRunning, session, created, conns,
                    profiles, files, captures, cleanupLog, bottlenecks,
                    flame,
                    autoProfiles, performanceMarks, memoryProfiles >>

----------------------------------------------------------------------------
(* Instrumentation listener *)

(* _handleGCEntry *)
HandleGCEntry ==
    /\ Called("gc")
    /\ ret' = "ok"
    /\ LET kept == Recent(Append(metrics.gc, [timestamp |-> now]), OneHour)
       IN  /\ metrics' = [metrics EXCEPT !.gc = kept]
           /\ emitted' =
                IF /\ Configured("gcFrequency")
                   /\ Len(Recent(kept, OneMinute)) > config.gcFrequency
                THEN << "high-gc-frequency" >>
                ELSE << >>
    /\ UNCHANGED << now, given, config, isRunning, session, created, conns,
                    monitors, profiles, files, captures, cleanupLog,
                    bottlenecks, flame,
                    autoProfiles, performanceMarks, memoryProfiles >>

PushOperationFirst(entries, name, record) ==
    IF \E i \in 1..Len(entries) : entries[i].name = name
    THEN [i \in 1..Len(entries) |->
            IF entries[i].name = name
            THEN [entries[i] EXCEPT !.records = << record >> \o @]
            ELSE entries[i]]
    ELSE Append(entries, [name |-> name, records |-> << record >>])

HasOperation(entries, name) ==
    \E i \in 1..Len(entries) : entries[i].name = name

(* operations.get(name).push(record), creating the entry when missing *)
PushOperation(entries, name, record) ==
    IF HasOperation(entries, name)
    THEN [i \in 1..Len(entries) |->
            IF entries[i].name = name
            THEN [entries[i] EXCEPT !.records = Append(@, record)]
            ELSE entries[i]]
    ELSE Append(entries, [name |-> name, records |-> << record >>])

(* _handleMeasureEntry *)
HandleMeasureEntry(name, duration) ==
    /\ Called("measure")
    /\ ret' = "ok"
    /\ metrics' =
         [metrics EXCEPT
            !.operations = PushOperation(@, name,
                              [timestamp |-> now, duration |-> duration])]
    /\ emitted' = IF duration > SlowMs THEN << "slow-operation" >> ELSE << >>
    /\ UNCHANGED << now, given, config, isRunning, session, created, conns,
                    monitors, profiles, files, captures, cleanupLog,
                    bottlenecks, flame,
                    autoProfiles, performanceMarks, memoryProfiles >>

(* performanceMarks.set(name, mark): a Map keeps the position of a key it *)
(* already has and replaces its value.                                     *)
SetMark(entries, name, mark) ==
    IF \E i \in 1..Len(entries) : entries[i].name = name
    THEN [i \in 1..Len(entries) |->
            IF entries[i].name = name
            THEN [name |-> name, mark |-> mark]
            ELSE entries[i]]
    ELSE Append(entries, [name |-> name, mark |-> mark])

(* _handleMarkEntry *)
HandleMarkEntry(name, startTime) ==
    /\ Called("mark")
    /\ ret' = "ok"
    /\ performanceMarks' =
         SetMark(performanceMarks, name,
                 [timestamp |-> now, startTime |-> startTime])
    /\ emitted' = << >>
    /\ UNCHANGED << now, given, config, isRunning, session, created, conns,
                    monitors, autoProfiles, metrics, profiles, files,
                    captures, memoryProfiles, cleanupLog, bottlenecks,
                    flame >>

----------------------------------------------------------------------------
(* Captures.  A capture is a promise returned by profileCPU or             *)
(* takeHeapSnapshot that has not settled: [type, at, sess, phase, auto],   *)
(* where at is the Date.now() of its id, sess the Session it was posted    *)
(* on, phase what it waits for: "timer", "write", or "hung" when the       *)
(* callback that was to settle it threw, and auto whether an auto-profile  *)
(* cycle awaits it.                                                        *)

ProfileId(type, at) == [type |-> type, at |-> at]

Remove(seq, i) == SubSeq(seq, 1, i - 1) \o SubSeq(seq, i + 1, Len(seq))

(* A chunk of a heap snapshot is a string, here the sequence of its       *)
(* characters; Buffer.byteLength counts the bytes of its UTF-8 encoding.   *)
Utf8Width(char) == IF char = "U+00E9" THEN 2 ELSE 1

RECURSIVE ByteLength(_)
ByteLength(chunk) ==
    IF chunk = << >> THEN 0
    ELSE Utf8Width(Head(chunk)) + ByteLength(Tail(chunk))

RECURSIVE TotalBytes(_)
TotalBytes(chunks) ==
    IF chunks = << >> THEN 0
    ELSE ByteLength(Head(chunks)) + TotalBytes(Tail(chunks))

NoChunks == << >>

(* A capture that begins now, under the profileId made of its type and the *)
(* clock.  size is the counter of a heap snapshot's chunk listener and own *)
(* the chunks the inspector produced for that snapshot.                    *)
NewCapture(type, phase) ==
    [type |-> type, at |-> now, sess |-> session, phase |-> phase,
     auto |-> FALSE, size |-> 0, own |-> NoChunks]

(* The inspector notifies HeapProfiler.addHeapSnapshotChunk once per chunk *)
(* while HeapProfiler.takeHeapSnapshot is posted: every listener that a    *)
(* snapshot has put on this.session counts the chunk.  The listeners of    *)
(* the snapshots in flight are the ones whose count is still to be read.   *)
Listening(capture) ==
    /\ capture.type = "heap"
    /\ capture.sess = session

Notified(running, chunks) ==
    [i \in 1..Len(running) |->
        IF Listening(running[i])
        THEN [running[i] EXCEPT !.size = @ + TotalBytes(chunks)]
        ELSE running[i]]

(* the snapshot that begins now, its own listener notified of its chunks *)
NewSnapshot(chunks) ==
    [NewCapture("heap", "write") EXCEPT
        !.size = TotalBytes(chunks), !.own = chunks]

(* the same capture, awaited inside the try of an auto-profile cycle *)
Awaited(capture) == [capture EXCEPT !.auto = TRUE]

(* What a rejection is for the caller: the catch of an auto-profile cycle  *)
(* logs it.                                                                *)
Rejection(capture) == IF capture.auto THEN "logged" ELSE "rejected"

(* profileCPU past its session guard: Profiler.enable and Profiler.start   *)
(* are posted and answered, the timer is set.  session.post throws when    *)
(* the Session is not connected, which rejects the promise.                *)
BeginCPUProfile ==
    IF session \in conns
    THEN /\ captures' = Append(captures, NewCapture("cpu", "timer"))
         /\ ret' = "pending"
    ELSE /\ ret' = "error"
         /\ UNCHANGED captures

ProfileCPUUnguarded ==
    /\ Called("profileCPU")
    /\ emitted' = << >>
    /\ BeginCPUProfile
    /\ UNCHANGED << now, given, config, isRunning, session, created, conns,
                    monitors, metrics, profiles, files, cleanupLog,
                    bottlenecks, flame,
                    autoProfiles, performanceMarks, memoryProfiles >>

ProfileCPU ==
    /\ Called("profileCPU")
    /\ emitted' = << >>
    /\ IF session = 0
       THEN /\ ret' = "not_active"
            /\ UNCHANGED captures
       ELSE BeginCPUProfile
    /\ UNCHANGED << now, given, config, isRunning, session, created, conns,
                    monitors, metrics, profiles, files, cleanupLog,
                    bottlenecks, flame,
                    autoProfiles, performanceMarks, memoryProfiles >>

(* The setTimeout callback of capture i posts Profiler.stop on this.session *)
(* as it is now.  answer is the inspector's: "ok", "err" (callback(err,    *)
(* result): the promise is rejected) or "err_no_result" (callback(err):    *)
(* binding { profile } throws, nothing settles the promise).  A Session    *)
(* other than the one the capture started on has no profile to stop.       *)
CPUProfileTimer(i, answer) ==
    /\ i \in 1..Len(captures)
    /\ captures[i].type = "cpu"
    /\ captures[i].phase = "timer"
    /\ Called("cpuTimer")
    /\ emitted' = << >>
    /\ IF session \notin conns
       THEN /\ captures' = [captures EXCEPT ![i].phase = "hung"]
            /\ ret' = "thrown"
       ELSE IF answer = "ok" /\ session = captures[i].sess
       THEN /\ captures' = [captures EXCEPT ![i].phase = "write"]
            /\ ret' = "pending"
       ELSE IF answer = "err_no_result"
       THEN /\ captures' = [captures EXCEPT ![i].phase = "hung"]
            /\ ret' = "thrown"
       ELSE /\ captures' = Remove(captures, i)
            /\ ret' = Rejection(captures[i])
    /\ UNCHANGED << now, given, config, isRunning, session, created, conns,
                    monitors, metrics, profiles, files, cleanupLog,
                    bottlenecks, flame,
                    autoProfiles, performanceMarks, memoryProfiles >>

(* this.profiles.set(id, { type, timestamp: new Date(), ... }) *)
Register(id) ==
    [p \in DOMAIN profiles \cup {id} |->
        IF p = id THEN [type |-> id.type, timestamp |-> now]
        ELSE profiles[p]]

(* this.profiles.set(snapshotId, { type: 'heap', ..., size }) *)
RegisterSnapshot(id, size) ==
    [p \in DOMAIN profiles \cup {id} |->
        IF p = id THEN [type |-> id.type, timestamp |-> now, size |-> size]
        ELSE profiles[p]]

(* takeHeapSnapshot past its session guard.  env is "no_require" when      *)
(* require is not defined in the module's scope, "err" when the inspector  *)
(* answers HeapProfiler.takeHeapSnapshot with an error, else "ok".         *)
BeginHeapSnapshot(env, chunks) ==
    IF env = "ok" /\ session \in conns
    THEN /\ captures' = Append(Notified(captures, chunks), NewSnapshot(chunks))
         /\ ret' = "pending"
    ELSE /\ ret' = "error"
         /\ UNCHANGED captures

TakeHeapSnapshot(env, chunks) ==
    /\ Called("takeHeapSnapshot")
    /\ emitted' = << >>
    /\ IF session = 0
       THEN /\ ret' = "not_active"
            /\ UNCHANGED captures
       ELSE BeginHeapSnapshot(env, chunks)
    /\ UNCHANGED << now, given, config, isRunning, session, created, conns,
                    monitors, metrics, profiles, files, cleanupLog,
                    bottlenecks, flame,
                    autoProfiles, performanceMarks, memoryProfiles >>

(* await this.takeHeapSnapshot() of the auto-profile cycle whose capture   *)
(* has just resolved; rest are the captures still in flight.               *)
ThenHeapSnapshot(rest, env, chunks) ==
    IF session # 0 /\ env = "ok" /\ session \in conns
    THEN /\ captures' = Append(Notified(rest, chunks),
                               Awaited(NewSnapshot(chunks)))
         /\ ret' = "pending"
    ELSE /\ captures' = rest
         /\ ret' = "logged"

(* The artifact write of capture i completes: fs.writeFile for a CPU       *)
(* profile, writeStream.end for a heap snapshot.  A failed writeFile       *)
(* rejects the capture.  The callback of writeStream.end is called when    *)
(* the stream has finished and when it has failed, and does not read its   *)
(* error argument.  When the CPU profile of an auto-profile cycle          *)
(* resolves, the cycle goes on to its heap snapshot in the same turn of    *)
(* the event loop; env is the SnapshotEnvs outcome of that snapshot and    *)
(* chunks are the chunks the inspector produces for it.                    *)
CaptureWritten(i, ok, env, chunks) ==
    /\ i \in 1..Len(captures)
    /\ captures[i].phase = "write"
    /\ Called("written")
    /\ LET id == ProfileId(captures[i].type, captures[i].at)
           rest == Remove(captures, i)
       IN  IF ok \/ captures[i].type = "heap"
           THEN /\ files' = IF ok THEN files \cup {id} ELSE files
                /\ profiles' = IF captures[i].type = "heap"
                               THEN RegisterSnapshot(id, captures[i].size)
                               ELSE Register(id)
                /\ emitted' = << "profile-complete" >>
                /\ IF captures[i].auto /\ captures[i].type = "cpu"
                   THEN ThenHeapSnapshot(rest, env, chunks)
                   ELSE /\ captures' = rest
                        /\ ret' = "resolved"
           ELSE /\ emitted' = << >>
                /\ captures' = rest
                /\ ret' = Rejection(captures[i])
                /\ UNCHANGED << files, profiles >>
    /\ UNCHANGED << now, given, config, isRunning, session, created, conns,
                    monitors, metrics, cleanupLog, bottlenecks, flame,
                    autoProfiles, performanceMarks, memoryProfiles >>

(* One run of a live _startAutoProfile interval: it clears itself when the *)
(* profiler is not running, else it begins a cycle with profileCPU.        *)
AutoProfileTick ==
    /\ autoProfiles > 0
    /\ Called(IF isRunning THEN "autoProfile" ELSE "autoCleared")
    /\ emitted' = << >>
    /\ IF ~isRunning
       THEN /\ autoProfiles' = autoProfiles - 1
            /\ ret' = "ok"
            /\ UNCHANGED captures
       ELSE /\ UNCHANGED autoProfiles
            /\ IF session # 0 /\ session \in conns
               THEN /\ captures' =
                         Append(captures, Awaited(NewCapture("cpu", "timer")))
                    /\ ret' = "pending"
               ELSE /\ ret' = "logged"
                    /\ UNCHANGED captures
    /\ UNCHANGED << now, given, config, isRunning, session, created, conns,
                    monitors, metrics, profiles, files, cleanupLog,
                    bottlenecks, flame, performanceMarks, memoryProfiles >>

----------------------------------------------------------------------------
(* Memory profiles.  A memory profile is a profileMemory promise that has  *)
(* not settled: [at, duration, samples, phase], where at is the Date.now() *)
(* of its id, samples is samples.length and phase is "sampling" while its  *)
(* interval is live and "write" once fs.writeFile has begun.               *)

(* profileMemory(duration) *)
ProfileMemory(duration) ==
    /\ Called("profileMemory")
    /\ memoryProfiles' =
         Append(memoryProfiles, [at |-> now, duration |-> duration,
                                 samples |-> 0, phase |-> "sampling"])
    /\ emitted' = << >>
    /\ ret' = "pending"
    /\ UNCHANGED << now, given, config, isRunning, session, created, conns,
                    monitors, autoProfiles, metrics, performanceMarks,
                    profiles, files, captures, cleanupLog, bottlenecks,
                    flame >>

(* sampleCount >= totalSamples, where totalSamples = duration / interval   *)
(* is the exact quotient                                                   *)
ReachedTotal(sampleCount, duration) ==
    sampleCount * SampleInterval >= duration

(* One tick of the sampling interval of memory profile i. *)
MemorySampleTick(i) ==
    /\ i \in 1..Len(memoryProfiles)
    /\ memoryProfiles[i].phase = "sampling"
    /\ Called("memorySample")
    /\ LET sampleCount == memoryProfiles[i].samples + 1
       IN  memoryProfiles' =
             [memoryProfiles EXCEPT
                ![i].samples = sampleCount,
                ![i].phase =
                    IF ReachedTotal(sampleCount, memoryProfiles[i].duration)
                    THEN "write" ELSE "sampling"]
    /\ emitted' = << >>
    /\ ret' = "ok"
    /\ UNCHANGED << now, given, config, isRunning, session, created, conns,
                    monitors, autoProfiles, metrics, performanceMarks,
                    profiles, files, captures, cleanupLog, bottlenecks,
                    flame >>

(* fs.writeFile of memory profile i completes: then registers the profile  *)
(* and resolves with the path, catch logs and resolves with null.          *)
MemoryProfileWritten(i, ok) ==
    /\ i \in 1..Len(memoryProfiles)
    /\ memoryProfiles[i].phase = "write"
    /\ Called("memoryWritten")
    /\ memoryProfiles' = Remove(memoryProfiles, i)
    /\ emitted' = << >>
    /\ LET id == ProfileId("memory", memoryProfiles[i].at)
       IN  IF ok
           THEN /\ files' = files \cup {id}
                /\ profiles' = Register(id)
                /\ ret' = "resolved"
           ELSE /\ ret' = "resolved_null"
                /\ UNCHANGED << files, profiles >>
    /\ UNCHANGED << now, given, config, isRunning, session, created, conns,
                    monitors, autoProfiles, metrics, performanceMarks,
                    captures, cleanupLog, bottlenecks, flame >>

----------------------------------------------------------------------------
(* Retention *)

Expired(maxAge) ==
    {id \in DOMAIN profiles : profiles[id].timestamp < now - maxAge}

Restrict(f, S) == [x \in S |-> f[x]]

(* cleanupProfiles(maxAge).  fails are the profiles whose fs.unlink is     *)
(* refused by the file system; unlink of a missing file fails as well.     *)
(* The awaits between the unlinks are folded into one step: the cutoff is  *)
(* read once, before the loop.                                             *)
CleanupWith(maxAge, fails, keepFailed) ==
    LET expired == Expired(maxAge)
        unlinked == {id \in expired : id \in files /\ id \notin fails}
        gone == IF keepFailed THEN unlinked ELSE expired
    IN  /\ fails \subseteq expired
        /\ Called("cleanup")
        /\ files' = files \ unlinked
        /\ profiles' = Restrict(profiles, DOMAIN profiles \ gone)
        /\ cleanupLog' = [maxAge |-> maxAge,
                          again |-> call = "cleanup"
                                    /\ cleanupLog.maxAge = maxAge,
                          attempted |-> expired, unlinked |-> unlinked,
                          removed |-> {[id |-> id,
                                        timestamp |-> profiles[id].timestamp]
                                       : id \in gone}]
        /\ emitted' = << >>
        /\ ret' = "ok"
        /\ UNCHANGED << now, given, config, isRunning, session, created, conns,
                        monitors, metrics, captures, bottlenecks, flame,
                        autoProfiles, performanceMarks, memoryProfiles >>

CleanupKeepingFailed(maxAge, fails) == CleanupWith(maxAge, fails, TRUE)

(* toDelete holds every expired id, whatever its unlink did *)
CleanupProfiles(maxAge, fails) == CleanupWith(maxAge, fails, FALSE)

----------------------------------------------------------------------------
(* Bottleneck detector *)

AtLeastThreshold(count, threshold) == count >= threshold

(* recentGCs.length > this.config.performanceThresholds.gcFrequency *)
OverThreshold(count, threshold) == count > threshold

GCFindings ==
    LET recentGCs == Recent(metrics.gc, OneMinute)
    IN  IF /\ Configured("gcFrequency")
           /\ OverThreshold(Len(recentGCs), config.gcFrequency)
        THEN << [type |-> "high_gc_frequency",
                 count |-> Len(recentGCs),
                 threshold |-> config.gcFrequency] >>
        ELSE << >>

(* array.slice(-n) *)
LastN(seq, n) ==
    IF Len(seq) <= n THEN seq ELSE SubSeq(seq, Len(seq) - n + 1, Len(seq))

GrowthPerStep(values) ==
    IF Len(values) < 2 THEN [num |-> 0, den |-> 1]
    ELSE [num |-> values[Len(values)] - values[1], den |-> Len(values) - 1]

(* _calculateGrowthRate: the quotient (end - start) / values.length, kept  *)
(* as the exact fraction num / den.                                        *)
CalculateGrowthRate(values) ==
    IF Len(values) < 2 THEN [num |-> 0, den |-> 1]
    ELSE [num |-> values[Len(values)] - values[1], den |-> Len(values)]

(* rate > limit, for a fraction with den > 0 *)
RateExceeds(rate, limit) == rate.num > limit * rate.den

MemoryFindings ==
    LET recentMemory == LastN(metrics.memory, LastSamples)
    IN  IF Len(recentMemory) >= 2
        THEN LET growthRate ==
                   CalculateGrowthRate([i \in 1..Len(recentMemory) |->
                                           recentMemory[i].heapUsed])
             IN  IF RateExceeds(growthRate, GrowthLimit)
                 THEN << [type |-> "memory_leak",
                          growthRate |-> growthRate] >>
                 ELSE << >>
        ELSE << >>

RECURSIVE SumDurations(_)
(* records.reduce((sum, m) => sum + m.duration, 0) *)
SumDurations(records) ==
    IF records = << >> THEN 0
    ELSE Head(records).duration + SumDurations(Tail(records))

AtLeastFrequent(count) == count >= FrequentCount

(* recent.length > 5 *)
MoreThanFrequent(count) == count > FrequentCount

(* avgDuration > 1000 && recent.length > 5, where avgDuration is the sum   *)
(* divided by recent.length: NaN, which exceeds nothing, when recent is    *)
(* empty.                                                                  *)
SlowAndFrequent(recent) ==
    /\ Len(recent) > 0
    /\ SumDurations(recent) > SlowMs * Len(recent)
    /\ MoreThanFrequent(Len(recent))

RECURSIVE OperationFindings(_)
OperationFindings(entries) ==
    IF entries = << >> THEN << >>
    ELSE LET recent == Recent(Head(entries).records, FiveMinutes)
         IN  (IF SlowAndFrequent(recent)
              THEN << [type |-> "slow_operation",
                       operation |-> Head(entries).name,
                       sum |-> SumDurations(recent),
                       count |-> Len(recent)] >>
              ELSE << >>)
             \o OperationFindings(Tail(entries))

(* detectBottlenecks() *)
DetectBottlenecks ==
    /\ Called("detect")
    /\ bottlenecks' = GCFindings \o MemoryFindings
                      \o OperationFindings(metrics.operations)
    /\ emitted' = << >>
    /\ ret' = "ok"
    /\ UNCHANGED << now, given, config, isRunning, session, created, conns,
                    monitors, metrics, profiles, files, captures,
                    cleanupLog, flame,
                    autoProfiles, performanceMarks, memoryProfiles >>

(* generateReport(): the report is built from the buffers and the         *)
(* bottleneck detector, then written with an awaited fs.writeFile whose    *)
(* failure rejects the call.  Nothing else depends on that write, so its   *)
(* completion is folded into the call.                                     *)
GenerateReport(ok) ==
    /\ Called("report")
    /\ bottlenecks' = GCFindings \o MemoryFindings
                      \o OperationFindings(metrics.operations)
    /\ files' = IF ok THEN files \cup {ProfileId("report", now)} ELSE files
    /\ ret' = IF ok THEN "resolved" ELSE "rejected"
    /\ emitted' = << >>
    /\ UNCHANGED << now, given, config, isRunning, session, created, conns,
                    monitors, autoProfiles, metrics, performanceMarks,
                    profiles, captures, memoryProfiles, cleanupLog, flame >>

----------------------------------------------------------------------------
(* Flame graph builder.  A node is [id, functionName]; the node list holds *)
(* each id once.                                                           *)

(* timeDeltas[index] || 1 *)
DeltaOrOne(timeDeltas, index) ==
    IF index > Len(timeDeltas) \/ timeDeltas[index] = 0 THEN 1
    ELSE timeDeltas[index]

RECURSIVE TotalTime(_, _, _, _)
(* the totalTime the forEach over samples[index..] adds to node id *)
TotalTime(id, samples, timeDeltas, index) ==
    IF index > Len(samples) THEN 0
    ELSE (IF samples[index] = id THEN DeltaOrOne(timeDeltas, index) ELSE 0)
         + TotalTime(id, samples, timeDeltas, index + 1)

(* _processProfileNodes(nodes, samples, timeDeltas) *)
ProcessProfileNodes(nodes, samples, timeDeltas) ==
    [k \in 1..Len(nodes) |->
        [name |-> IF nodes[k].functionName = "" THEN "(anonymous)"
                  ELSE nodes[k].functionName,
         value |-> TotalTime(nodes[k].id, samples, timeDeltas, 1)]]

BuildFlameGraph ==
    /\ call = "new"
    /\ Called("flame")
    /\ flame' = [flame EXCEPT
                   !.out = ProcessProfileNodes(flame.nodes, flame.samples,
                                               flame.timeDeltas)]
    /\ emitted' = << >>
    /\ ret' = "ok"
    /\ UNCHANGED << now, given, config, isRunning, session, created, conns,
                    monitors, metrics, profiles, files, captures,
                    cleanupLog, bottlenecks,
                    autoProfiles, performanceMarks, memoryProfiles >>

----------------------------------------------------------------------------
(* The profiler as its host drives it. *)

StartOutcomes == {"ok", "open_fails", "connect_fails"}
StopAnswers == {"ok", "err", "err_no_result"}
SnapshotEnvs == {"ok", "err", "no_require"}
MaxAges == {0, OneHour}

(* Session, sampler, listener and captures; the clock stands still.  No   *)
(* capture here belongs to an auto-profile cycle, so the outcome of a      *)
(* cycle's heap snapshot plays no part.                                    *)
Next ==
    \/ \E o \in StartOutcomes : Start(o)
    \/ Stop
    \/ /\ isRunning => Len(metrics.memory) < MaxBuf
       /\ SamplerTick(MemoryUsageDefault)
    \/ /\ Len(metrics.gc) < MaxBuf
       /\ HandleGCEntry
    \/ /\ SumLen(metrics.operations) < MaxBuf
       /\ HandleMeasureEntry("load", SlowMs)
    \/ /\ Len(captures) < MaxCaptures
       /\ ProfileCPU
    \/ \E e \in SnapshotEnvs :
          /\ Len(captures) < MaxCaptures
          /\ TakeHeapSnapshot(e, NoChunks)
    \/ \E i \in 1..Len(captures), a \in StopAnswers : CPUProfileTimer(i, a)
    \/ \E i \in 1..Len(captures), ok \in BOOLEAN :
          CaptureWritten(i, ok, "ok", NoChunks)

Spec == Init /\ [][Next]_vars

(* now + d stays within n steps of d *)
Within(d, n) == now + d <= n * d

HalfHour == OneHour \div 2
HalfMinute == OneMinute \div 2

(* Retention: one session whose captures are registered at several clock   *)
(* readings and cleaned up.                                                *)
NextRetention ==
    \/ /\ Within(OneHour, MaxTicks)
       /\ Tick(OneHour)
    \/ \E o \in StartOutcomes : Start(o)
    \/ /\ Len(captures) < MaxCaptures
       /\ Cardinality(DOMAIN profiles) + Len(captures) < MaxProfiles
       /\ ProfileCPU
    \/ \E i \in 1..Len(captures), a \in StopAnswers : CPUProfileTimer(i, a)
    \/ \E i \in 1..Len(captures), ok \in BOOLEAN :
          CaptureWritten(i, ok, "ok", NoChunks)
    \/ \E m \in MaxAges, f \in SUBSET DOMAIN profiles : CleanupProfiles(m, f)

SpecRetention == Init /\ [][NextRetention]_vars

(* Sampler: the interval timer against the clock. *)
NextSampler ==
    \/ /\ Within(HalfHour, MaxTicks + 1)
       /\ Tick(HalfHour)
    \/ \E o \in StartOutcomes : Start(o)
    \/ Stop
    \/ \E h \in {MemoryUsageDefault, MemoryUsageDefault + 1} :
          /\ isRunning => Len(metrics.memory) < MaxBuf + 1
          /\ SamplerTick(h)

SpecSampler == Init /\ [][NextSampler]_vars

(* GC frequency: GC entries against the clock, for each threshold. *)
GcThresholds == {1, 2, GcFrequencyDefault}

InitGC ==
    \E t \in GcThresholds :
        InitWith([performanceThresholds |->
                     [DefaultThresholds EXCEPT !.gcFrequency = t]], NoFlame)

NextGC ==
    \/ /\ Within(HalfMinute, MaxTicks + 1)
       /\ Tick(HalfMinute)
    \/ /\ Len(metrics.gc) < MaxGC
       /\ HandleGCEntry
    \/ DetectBottlenecks

SpecGC == InitGC /\ [][NextGC]_vars

(* Memory growth: heapUsed moves by one of HeapSteps between samples. *)
HeapSteps == {0, MiB, 2 * MiB}

NextHeapReadings ==
    IF metrics.memory = << >> THEN {MiB}
    ELSE {metrics.memory[Len(metrics.memory)].heapUsed + d : d \in HeapSteps}

NextMem ==
    \/ \E o \in StartOutcomes : Start(o)
    \/ \E h \in NextHeapReadings :
          /\ isRunning => Len(metrics.memory) < MaxMem
          /\ SamplerTick(h)
    \/ DetectBottlenecks

SpecMem == Init /\ [][NextMem]_vars

(* Slow operations: measure entries against the clock. *)
OperationNames == {"load", "infer"}
Durations == {SlowMs \div 2, SlowMs + SlowMs \div 2}

NextOps ==
    \/ /\ Within(FiveMinutes, MaxTicks - 1)
       /\ Tick(FiveMinutes)
    \/ \E n \in OperationNames, d \in Durations :
          /\ SumLen(metrics.operations) < MaxRecs
          /\ HandleMeasureEntry(n, d)
    \/ DetectBottlenecks

SpecOps == Init /\ [][NextOps]_vars

(* Flame graph: every profile of up to MaxNodes nodes and MaxSamples       *)
(* samples, each sample with its time delta.                               *)
NodeLists ==
    { << >>, << [id |-> 1, functionName |-> "f"] >>,
      << [id |-> 1, functionName |-> "f"], [id |-> 2, functionName |-> ""] >>,
      << [id |-> 2, functionName |-> ""], [id |-> 1, functionName |-> "f"] >> }
SampleIds == {1, 2, 3}
TimeDeltas == {0, 10, 20}

InitFlame ==
    \E nodes \in NodeLists, n \in 0..MaxSamples :
        \E samples \in [1..n -> SampleIds], deltas \in [1..n -> TimeDeltas] :
            InitWith(NoConfig,
                     [nodes |-> nodes, samples |-> samples,
                      timeDeltas |-> deltas, out |-> << >>])

NextFlame == BuildFlameGraph

SpecFlame == InitFlame /\ [][NextFlame]_vars

(* Auto-profile mode: the interval timer, its cycles and the session.     *)
InitAuto == InitWith([autoProfile |-> TRUE], NoFlame)

NextAuto ==
    \/ /\ Within(FiveMinutes, MaxTicks - 1)
       /\ Tick(FiveMinutes)
    \/ \E o \in StartOutcomes : Start(o)
    \/ Stop
    \/ /\ isRunning => Len(captures) < MaxCycles
       /\ AutoProfileTick
    \/ \E i \in 1..Len(captures), a \in StopAnswers : CPUProfileTimer(i, a)
    \/ \E i \in 1..Len(captures), ok \in BOOLEAN, e \in SnapshotEnvs :
          CaptureWritten(i, ok, e, NoChunks)

SpecAuto == InitAuto /\ [][NextAuto]_vars

(* Timers: the sampler interval and the auto-profile interval against     *)
(* start() and stop().                                                     *)
NextTimers ==
    \/ \E o \in StartOutcomes : Start(o)
    \/ Stop
    \/ /\ isRunning => Len(metrics.memory) < MaxBuf
       /\ SamplerTick(MemoryUsageDefault)
    \/ /\ isRunning => Len(captures) < MaxCaptures
       /\ AutoProfileTick
    \/ \E i \in 1..Len(captures), a \in StopAnswers : CPUProfileTimer(i, a)
    \/ \E i \in 1..Len(captures), ok \in BOOLEAN, e \in SnapshotEnvs :
          CaptureWritten(i, ok, e, NoChunks)

SpecTimers == InitAuto /\ [][NextTimers]_vars

(* Memory profiles of each duration, with and without a session. *)
MemoryDurations == {0, 50, 100, 150, 200, 250}

NextMemory ==
    \/ \E o \in StartOutcomes : Start(o)
    \/ Stop
    \/ \E d \in MemoryDurations :
          /\ Len(memoryProfiles) < MaxMemoryProfiles
          /\ Cardinality(DOMAIN profiles) < MaxMemoryProfiles
          /\ ProfileMemory(d)
    \/ \E i \in 1..Len(memoryProfiles) : MemorySampleTick(i)
    \/ \E i \in 1..Len(memoryProfiles), ok \in BOOLEAN :
          MemoryProfileWritten(i, ok)

SpecMemory == Init /\ [][NextMemory]_vars

(* Configuration: every way of supplying some of the thresholds.  A        *)
(* caller's config has performanceThresholds or not, and that object has   *)
(* each threshold or not.                                                  *)
ThresholdChoices ==
    [cpuUsage |-> {0, 50}, memoryUsage |-> {MiB}, gcFrequency |-> {1}]

SuppliedThresholds ==
    UNION {{t \in [D -> {0, 1, 50, MiB}] :
               \A k \in D : t[k] \in ThresholdChoices[k]}
           : D \in SUBSET ThresholdNames}

CallerConfigs ==
    {NoConfig, [autoProfile |-> TRUE]}
      \cup {[performanceThresholds |-> t] : t \in SuppliedThresholds}
      \cup {[autoProfile |-> TRUE, performanceThresholds |-> t]
              : t \in SuppliedThresholds}

InitConfig == \E cfg \in CallerConfigs : InitWith(cfg, NoFlame)

NextConfig ==
    \/ \E o \in StartOutcomes : Start(o)
    \/ \E h \in {MiB + 1, MemoryUsageDefault + 1} :
          /\ isRunning => Len(metrics.memory) < MaxBuf
          /\ SamplerTick(h)
    \/ /\ Len(metrics.gc) < MaxBuf + 1
       /\ HandleGCEntry

SpecConfig == InitConfig /\ [][NextConfig]_vars

(* Listener: entries of each kind against the clock and the session. *)
MarkNames == {"begin"}

NextListener ==
    \/ /\ Within(HalfMinute, MaxTicks)
       /\ Tick(HalfMinute)
    \/ Start("ok")
    \/ Stop
    \/ /\ Len(metrics.gc) < MaxBuf + 1
       /\ HandleGCEntry
    \/ \E n \in OperationNames :
          /\ SumLen(metrics.operations) < MaxBuf + 1
          /\ HandleMeasureEntry(n, SlowMs)
    \/ \E n \in MarkNames : HandleMarkEntry(n, now)

SpecListener == Init /\ [][NextListener]_vars

(* One-shot requests: each capture and the report, with every outcome of  *)
(* its stop step and of its write.                                         *)
NextRequests ==
    \/ \E o \in StartOutcomes : Start(o)
    \/ Stop
    \/ /\ Len(captures) < MaxCaptures
       /\ ProfileCPU
    \/ \E e \in SnapshotEnvs :
          /\ Len(captures) < MaxCaptures
          /\ TakeHeapSnapshot(e, NoChunks)
    \/ /\ Len(memoryProfiles) < MaxMemoryProfiles
       /\ ProfileMemory(SampleInterval)
    \/ \E ok \in BOOLEAN : GenerateReport(ok)
    \/ \E i \in 1..Len(captures), a \in StopAnswers : CPUProfileTimer(i, a)
    \/ \E i \in 1..Len(captures), ok \in BOOLEAN :
          CaptureWritten(i, ok, "ok", NoChunks)
    \/ \E i \in 1..Len(memoryProfiles) : MemorySampleTick(i)
    \/ \E i \in 1..Len(memoryProfiles), ok \in BOOLEAN :
          MemoryProfileWritten(i, ok)

SpecRequests == Init /\ [][NextRequests]_vars

(* Auto-profile mode by itself, against the clock.  start() runs at clock *)
(* reading 0, so the interval timer is due at the multiples of             *)
(* heapSnapshotInterval and the timer of a capture profileDuration after   *)
(* the capture began.  The clock does not pass a timer that is due, and    *)
(* every write completes within the clock reading at which it began.       *)
Step == ProfileDurationDefault

CycleTimings ==
    {[autoProfile |-> TRUE, profileDuration |-> d, heapSnapshotInterval |-> i]
       : d \in {Step, 4 * Step}, i \in {2 * Step, 3 * Step}}

InitCycles == \E cfg \in CycleTimings : InitWith(cfg, NoFlame)

(* the interval callback has run at this clock reading *)
CycleBegunNow ==
    \E i \in 1..Len(captures) :
        captures[i].auto /\ captures[i].type = "cpu" /\ captures[i].at = now

IntervalDue ==
    /\ autoProfiles > 0
    /\ now > 0
    /\ now % config.heapSnapshotInterval = 0
    /\ ~CycleBegunNow

TimerDue(i) ==
    /\ captures[i].phase = "timer"
    /\ now >= captures[i].at + config.profileDuration

NextCycles ==
    \/ /\ Within(Step, 2 * MaxCycles + 3)
       /\ ~IntervalDue
       /\ \A i \in 1..Len(captures) :
              ~TimerDue(i) /\ captures[i].phase # "write"
       /\ Tick(Step)
    \/ /\ now = 0
       /\ Start("ok")
    \/ /\ IntervalDue
       /\ Len(captures) < MaxCycles
       /\ AutoProfileTick
    \/ \E i \in 1..Len(captures), a \in StopAnswers :
          /\ TimerDue(i)
          /\ CPUProfileTimer(i, a)
    \/ \E i \in 1..Len(captures), ok \in BOOLEAN, e \in SnapshotEnvs :
          CaptureWritten(i, ok, e, NoChunks)

SpecCycles == InitCycles /\ [][NextCycles]_vars

MaxConcurrent == 2
MaxClock == 1
MaxBytes == 4
Millisecond == 1

(* Chunks: heap snapshots requested on one session or on successive ones, *)
(* two of them in flight at a time, each answered by the inspector with a  *)
(* stream of one or two chunks.                                            *)
ChunkStreams == {<< << "a" >> >>, << << "U+00E9", "a" >>, << "a" >> >>}

NextChunks ==
    \/ /\ now < MaxClock
       /\ Tick(Millisecond)
    \/ Start("ok")
    \/ Stop
    \/ \E chunks \in ChunkStreams :
          /\ Len(captures) < MaxConcurrent
          /\ \A i \in 1..Len(captures) : captures[i].size <= MaxBytes
          /\ TakeHeapSnapshot("ok", chunks)
    \/ \E i \in 1..Len(captures), ok \in BOOLEAN :
          CaptureWritten(i, ok, "ok", NoChunks)

SpecChunks == Init /\ [][NextChunks]_vars

(* Identifiers: capture requests of every type made on one session, two   *)
(* of them in flight at a time, at clock readings one millisecond apart.   *)
(* The timer of a CPU profile fires at a later reading than the one it was *)
(* set at; a write may complete within the millisecond it began in.        *)

InFlight == Len(captures) + Len(memoryProfiles)

NextIds ==
    \/ /\ now < MaxClock
       /\ Tick(Millisecond)
    \/ /\ now = 0
       /\ Start("ok")
    \/ /\ InFlight < MaxConcurrent
       /\ ProfileCPU
    \/ /\ InFlight < MaxConcurrent
       /\ TakeHeapSnapshot("ok", NoChunks)
    \/ /\ InFlight < MaxConcurrent
       /\ ProfileMemory(SampleInterval)
    \/ \E i \in 1..Len(captures) :
          /\ now > captures[i].at
          /\ CPUProfileTimer(i, "ok")
    \/ \E i \in 1..Len(captures) : CaptureWritten(i, TRUE, "ok", NoChunks)
    \/ \E i \in 1..Len(memoryProfiles) :
          /\ now > memoryProfiles[i].at
          /\ MemorySampleTick(i)
    \/ \E i \in 1..Len(memoryProfiles) : MemoryProfileWritten(i, TRUE)

SpecIds == Init /\ [][NextIds]_vars


ProgramState ==
    << now, given, config, isRunning, session, created, conns, monitors,
       autoProfiles, metrics, performanceMarks, profiles, files, captures,
       memoryProfiles >>

(* C1: after any sequence of start()/stop() at most one instrumentation    *)
(* connection is open, and start() on a running profiler is a no-op: no    *)
(* new Session, no new connection, no new sampler, no 'started' event, no  *)
(* error.                                                                  *)
C1_SingleConnection ==
    /\ [](Cardinality(conns) <= 1)
    /\ [][(call' = "start" /\ isRunning)
            => /\ UNCHANGED ProgramState
               /\ emitted' = << >>
               /\ ret' = "ok"]_vars

C1_Witness ==
    /\ call = "start"
    /\ ret = "ok"
    /\ emitted = << >>
    /\ conns = {session}

(* C2: while no session is active (isRunning is false: before the first    *)
(* start() and after any stop()) profileCPU and takeHeapSnapshot fail with *)
(* the not-active error, begin no capture, register no profile and emit    *)
(* nothing.                                                                *)
C2_InactiveCaptureFails ==
    [][(call' \in {"profileCPU", "takeHeapSnapshot"} /\ ~isRunning)
         => /\ ret' = "not_active"
            /\ UNCHANGED ProgramState
            /\ emitted' = << >>]_vars

C2_Witness ==
    /\ call = "profileCPU"
    /\ ret = "not_active"
    /\ ~isRunning
    /\ created > 0
    /\ DOMAIN profiles # {}

(* C3: stop() on an inactive profiler changes nothing and emits nothing;   *)
(* stop() on an active one closes the connection and emits 'stopped'       *)
(* exactly once; both leave the metric buffers and the profile mapping as  *)
(* they were.                                                              *)
C3_StopFrame ==
    [][call' = "stop"
         => /\ UNCHANGED << metrics, profiles >>
            /\ IF isRunning
               THEN /\ emitted' = << "stopped" >>
                    /\ conns' = conns \ {session}
                    /\ session' = 0
                    /\ ~isRunning'
               ELSE /\ emitted' = << >>
                    /\ UNCHANGED ProgramState]_vars

C3_Witness ==
    /\ call = "stop"
    /\ emitted = << "stopped" >>
    /\ conns = {}
    /\ metrics.memory # << >>
    /\ metrics.cpu # << >>
    /\ metrics.gc # << >>
    /\ metrics.operations # << >>
    /\ DOMAIN profiles # {}

(* C4: in cleanupProfiles an expired profile is removed from the mapping   *)
(* exactly when the deletion of its artifact succeeds; after a failed      *)
(* deletion the entry stays in the mapping.                                *)
C4_RemovedIffUnlinked ==
    call = "cleanup"
      => /\ {r.id : r \in cleanupLog.removed} = cleanupLog.unlinked
         /\ cleanupLog.attempted \ cleanupLog.unlinked
              \subseteq DOMAIN profiles

(* C5: a cleanupProfiles call that directly follows another with the same  *)
(* maxAge (nothing registered and no clock step in between) attempts no    *)
(* deletion, removes nothing and raises no error; and no call removes a    *)
(* profile whose timestamp is not older than now - maxAge.                 *)
C5_CleanupIdempotent ==
    call = "cleanup"
      => /\ cleanupLog.again
              => /\ cleanupLog.attempted = {}
                 /\ cleanupLog.removed = {}
                 /\ ret = "ok"
         /\ \A r \in cleanupLog.removed :
                r.timestamp < now - cleanupLog.maxAge

C5_Witness ==
    /\ call = "cleanup"
    /\ cleanupLog.again
    /\ DOMAIN profiles # {}
    /\ files \ DOMAIN profiles # {}

(* C6: right after each append by the sampler the memory buffer and the    *)
(* CPU buffer hold only samples with timestamp > now - 1 hour.             *)
C6_WindowAfterAppend ==
    call = "sample"
      => /\ \A i \in 1..Len(metrics.memory) :
                metrics.memory[i].timestamp > now - OneHour
         /\ \A i \in 1..Len(metrics.cpu) :
                metrics.cpu[i].timestamp > now - OneHour

C6_Witness ==
    /\ call = "sample"
    /\ now > OneHour
    /\ Len(metrics.memory) = 2
    /\ Len(metrics.cpu) = 2
    /\ metrics.memory[1].timestamp < now

InLastMinute == {i \in 1..Len(metrics.gc) :
                    now - metrics.gc[i].timestamp < OneMinute}

Flagged(type) == {k \in 1..Len(bottlenecks) : bottlenecks[k].type = type}

(* C7: with exactly threshold + 1 GC events, all within the last 60        *)
(* seconds, detectBottlenecks flags exactly one high_gc_frequency; with    *)
(* exactly threshold such events it flags none.                            *)
C7_GCFrequencyStrict ==
    (call = "detect" /\ Cardinality(InLastMinute) = Len(metrics.gc))
      => /\ Len(metrics.gc) = config.gcFrequency + 1
              => Cardinality(Flagged("high_gc_frequency")) = 1
         /\ Len(metrics.gc) = config.gcFrequency
              => Flagged("high_gc_frequency") = {}

C7_Witness ==
    /\ call = "detect"
    /\ config.gcFrequency = GcFrequencyDefault
    /\ Cardinality(InLastMinute) = Len(metrics.gc)
    /\ Len(metrics.gc) = GcFrequencyDefault + 1
    /\ Cardinality(Flagged("high_gc_frequency")) = 1

(* the last ten samples, each d bytes of heapUsed above the one before *)
TenSamplesStepping(d) ==
    /\ Len(metrics.memory) >= LastSamples
    /\ \A i \in (Len(metrics.memory) - LastSamples + 2)..Len(metrics.memory) :
           metrics.memory[i].heapUsed = metrics.memory[i - 1].heapUsed + d

(* C8 as stated: ten samples that grow by exactly 2 MiB each give a growth *)
(* rate of 2 MiB per sample and flag memory_leak; ten constant samples     *)
(* flag no memory_leak.                                                    *)
C8_GrowthTwoMiB ==
    call = "detect"
      => /\ TenSamplesStepping(2 * MiB)
              => \E k \in Flagged("memory_leak") :
                     bottlenecks[k].growthRate.num
                       = 2 * MiB * bottlenecks[k].growthRate.den
         /\ TenSamplesStepping(0) => Flagged("memory_leak") = {}

(* C8 amended: ten samples that grow by exactly 2 MiB each give a growth   *)
(* rate of (last - first) / 10 = 1.8 MiB per sample, which flags           *)
(* memory_leak once; ten constant samples flag no memory_leak.             *)
C8_GrowthOverCount ==
    call = "detect"
      => /\ TenSamplesStepping(2 * MiB)
              => /\ Cardinality(Flagged("memory_leak")) = 1
                 /\ \A k \in Flagged("memory_leak") :
                        10 * bottlenecks[k].growthRate.num
                          = 18 * MiB * bottlenecks[k].growthRate.den
         /\ TenSamplesStepping(0) => Flagged("memory_leak") = {}

C8_Witness ==
    /\ call = "detect"
    /\ TenSamplesStepping(2 * MiB)
    /\ Flagged("memory_leak") # {}

RecordsOf(name) ==
    {<< e, i >> \in (1..Len(metrics.operations)) \X (1..MaxRecs + 1) :
        /\ metrics.operations[e].name = name
        /\ i <= Len(metrics.operations[e].records)
        /\ now - metrics.operations[e].records[i].timestamp < FiveMinutes}

RECURSIVE TotalDuration(_)
TotalDuration(S) ==
    IF S = {} THEN 0
    ELSE LET x == CHOOSE y \in S : TRUE
         IN  metrics.operations[x[1]].records[x[2]].duration
             + TotalDuration(S \ {x})

FlaggedSlow(name) ==
    {k \in Flagged("slow_operation") : bottlenecks[k].operation = name}

(* C9: detectBottlenecks flags slow_operation for an operation name if and *)
(* only if the name has more than 5 records within the last 5 minutes and  *)
(* their average duration exceeds 1000 ms.                                 *)
C9_SlowOperationIff ==
    call = "detect"
      => \A name \in OperationNames :
            LET recent == RecordsOf(name)
            IN  IF /\ Cardinality(recent) > 5
                   /\ TotalDuration(recent) > 1000 * Cardinality(recent)
                THEN Cardinality(FlaggedSlow(name)) = 1
                ELSE FlaggedSlow(name) = {}

C9_Witness ==
    /\ call = "detect"
    /\ Cardinality(RecordsOf("load")) = 6
    /\ FlaggedSlow("load") # {}
    /\ FlaggedSlow("infer") = {}
    /\ \E e \in 1..Len(metrics.operations) :
          /\ metrics.operations[e].name = "load"
          /\ Len(metrics.operations[e].records) > 6

RECURSIVE DeltaSum(_)
DeltaSum(S) ==
    IF S = {} THEN 0
    ELSE LET i == CHOOSE j \in S : TRUE
         IN  flame.timeDeltas[i] + DeltaSum(S \ {i})

(* C10: the flame-graph value of each node is the sum of the time deltas   *)
(* at exactly the indices whose sample is the node's id, zero deltas       *)
(* included; samples of unlisted nodes count for no node.                  *)
C10_FlameValueIsDeltaSum ==
    call = "flame"
      => /\ Len(flame.out) = Len(flame.nodes)
         /\ \A k \in 1..Len(flame.nodes) :
                flame.out[k].value
                  = DeltaSum({i \in 1..Len(flame.samples) :
                                 flame.samples[i] = flame.nodes[k].id})

(* the captures of the given type that auto-profile cycles await *)
AutoCaptures(type) ==
    {i \in 1..Len(captures) : captures[i].auto /\ captures[i].type = type}

(* C11: in auto-profile mode a cycle begins its heap snapshot only in the  *)
(* step in which its CPU profile completed; while the session of a cycle   *)
(* stays active no capture of the cycle fails without the cycle catching   *)
(* and logging it (none is left unsettled by a callback that threw); and   *)
(* while the session stays active the interval timer stays live, so later  *)
(* cycles run.                                                             *)
C11_AutoCycle ==
    /\ [][(Cardinality(AutoCaptures("heap"))'
              > Cardinality(AutoCaptures("heap")))
            => /\ call' = "written"
               /\ emitted' = << "profile-complete" >>
               /\ Cardinality(AutoCaptures("cpu"))'
                    < Cardinality(AutoCaptures("cpu"))]_vars
    /\ [](\A i \in 1..Len(captures) :
              (captures[i].auto /\ captures[i].sess = session
                 /\ session \in conns)
                => captures[i].phase # "hung")
    /\ []((isRunning /\ session \in conns) => autoProfiles > 0)

(* C12: profileMemory(durationMs) has recorded exactly                     *)
(* floor(durationMs / 100) samples, and at least 1, when it stops sampling *)
(* and writes the artifact, whether or not a session is active; and none   *)
(* of its steps changes the metric buffers.                                *)
C12_MemorySampleCount ==
    /\ [](\A i \in 1..Len(memoryProfiles) :
              memoryProfiles[i].phase = "write"
                => memoryProfiles[i].samples
                     = (IF memoryProfiles[i].duration \div 100 >= 1
                        THEN memoryProfiles[i].duration \div 100
                        ELSE 1))
    /\ [][call' \in {"profileMemory", "memorySample", "memoryWritten"}
            => UNCHANGED metrics]_vars

(* the thresholds the caller's configuration supplies *)
Supplied ==
    IF "performanceThresholds" \in DOMAIN given
    THEN DOMAIN given.performanceThresholds
    ELSE {}

(* C13: each threshold option the caller's configuration does not supply   *)
(* has its default (80, 512 MiB, 10) in the effective configuration, also  *)
(* when the caller supplies only some of the three.                        *)
C13_ThresholdDefaults ==
    \A k \in ThresholdNames \ Supplied :
        k \in DOMAIN config /\ config[k] = DefaultThresholds[k]

(* the records of buffer are in the order of their timestamps *)
InArrivalOrder(buffer) ==
    \A i, j \in 1..Len(buffer) :
        i < j => buffer[i].timestamp <= buffer[j].timestamp

(* the operation entries whose newest record was made at time t *)
RecordedLast(entries, t) ==
    {e \in 1..Len(entries) :
        entries[e].records[Len(entries[e].records)].timestamp = t}

(* C14: the listener is subscribed from construction on, whatever start()  *)
(* and stop() do: in every session state a GC entry is appended to the GC  *)
(* buffer, a measure entry to the records of its operation and a mark      *)
(* entry is stored as the last-seen mark of its name; each buffer holds    *)
(* its records in arrival order.                                           *)
C14_ListenerRecords ==
    /\ [][(call' = "gc")
            => /\ Len(metrics'.gc) = Len(Recent(metrics.gc, OneHour)) + 1
               /\ metrics'.gc[Len(metrics'.gc)].timestamp = now]_vars
    /\ [][(call' = "measure")
            => /\ SumLen(metrics'.operations)
                    = SumLen(metrics.operations) + 1
               /\ RecordedLast(metrics'.operations, now) # {}]_vars
    /\ [][(call' = "mark")
            => \E e \in 1..Len(performanceMarks') :
                   performanceMarks'[e].mark.timestamp = now]_vars
    /\ [](/\ InArrivalOrder(metrics.gc)
          /\ \A e \in 1..Len(metrics.operations) :
                 InArrivalOrder(metrics.operations[e].records))

C14_Witness ==
    /\ ~isRunning
    /\ created > 0
    /\ call = "measure"
    /\ Len(metrics.gc) = 2
    /\ metrics.gc[1].timestamp < metrics.gc[2].timestamp
    /\ \E e \in 1..Len(metrics.operations) :
          /\ Len(metrics.operations[e].records) = 2
          /\ metrics.operations[e].records[1].timestamp < now
    /\ Len(performanceMarks) = 1
    /\ performanceMarks[1].mark.timestamp > 0

(* C15: a sampler tick appends one memory and one CPU sample only while   *)
(* the session is active; a tick while it is not (after stop() and until   *)
(* the next start()) leaves the metric buffers alone and emits nothing;    *)
(* and a tick that samples emits 'high-memory-usage' if and only if the    *)
(* heapUsed it read exceeds the configured memory threshold.               *)
C15_SamplerWhileActive ==
    [][call' \in {"sample", "samplerCleared"}
         => IF isRunning
            THEN /\ call' = "sample"
                 /\ metrics'.memory # << >>
                 /\ metrics'.cpu # << >>
                 /\ metrics'.memory[Len(metrics'.memory)].timestamp = now
                 /\ metrics'.cpu[Len(metrics'.cpu)].timestamp = now
                 /\ emitted' =
                      IF metrics'.memory[Len(metrics'.memory)].heapUsed
                           > config.memoryUsage
                      THEN << "high-memory-usage" >>
                      ELSE << >>
            ELSE /\ UNCHANGED metrics
                 /\ emitted' = << >>]_vars

C15_Witness ==
    /\ call = "samplerCleared"
    /\ ~isRunning
    /\ monitors = 0
    /\ Len(metrics.memory) = 2
    /\ metrics.memory[1].heapUsed > config.memoryUsage
    /\ metrics.memory[2].heapUsed = config.memoryUsage

(* C16: a profile is in the mapping only when its artifact has been       *)
(* written (nothing here deletes artifacts); 'profile-complete' is emitted *)
(* only in a step that has registered a profile whose artifact is written; *)
(* and a capture whose stop step or artifact write fails registers         *)
(* nothing and emits nothing.                                              *)
C16_RegisteredAfterWrite ==
    /\ [](DOMAIN profiles \subseteq files)
    /\ [][(emitted' = << "profile-complete" >>)
            => \E id \in DOMAIN profiles' \cap files' :
                   profiles'[id].timestamp = now]_vars
    /\ [][(call' \in {"cpuTimer", "written"}
             /\ ret' \in {"rejected", "thrown", "logged"})
            => /\ UNCHANGED << profiles, files >>
               /\ emitted' = << >>]_vars

(* C17: a step that ends a one-shot request (profileCPU,                   *)
(* takeHeapSnapshot, profileMemory, generateReport) either resolves it,    *)
(* and then its artifact has been written, or rejects it: it is never left *)
(* unsettled by a callback that threw and never resolved without its       *)
(* artifact.  A rejected request is over: its capture is not in flight any *)
(* more, so nothing retries it.                                            *)
C17_FailuresReported ==
    /\ [][(call' \in {"cpuTimer", "written", "memoryWritten", "report"})
            => ret' \in {"pending", "resolved", "rejected"}]_vars
    /\ [][(call' = "written" /\ ret' = "resolved")
            => \E i \in 1..Len(captures) :
                   /\ captures' = Remove(captures, i)
                   /\ ProfileId(captures[i].type, captures[i].at)
                        \in files']_vars
    /\ [][(call' = "memoryWritten" /\ ret' = "resolved")
            => \E i \in 1..Len(memoryProfiles) :
                   /\ memoryProfiles' = Remove(memoryProfiles, i)
                   /\ ProfileId("memory", memoryProfiles[i].at)
                        \in files']_vars
    /\ [][(call' = "report" /\ ret' = "resolved")
            => ProfileId("report", now) \in files']_vars
    /\ [][(call' \in {"cpuTimer", "written"} /\ ret' = "rejected")
            => Len(captures') < Len(captures)]_vars

(* C18: every accepted profileCPU call settles in the end, whatever       *)
(* stop() and start() do meanwhile.  A capture waiting for its timer or    *)
(* its write is settled by that callback; the claim fails exactly when a   *)
(* capture is left with no callback to settle it, so: no CPU capture is    *)
(* ever in the phase "hung".                                               *)
C18_ProfileCPUSettles ==
    \A i \in 1..Len(captures) :
        captures[i].type = "cpu" => captures[i].phase # "hung"

(* C19: at most one sampler timer and at most one auto-profile timer is   *)
(* live at any time, whatever sequence of start() and stop() has run.      *)
C19_OneTimerEach ==
    /\ monitors <= 1
    /\ autoProfiles <= 1

(* C20: a start() that fails to open the connection returns its error,    *)
(* leaves the profiler inactive, starts no sampler and emits nothing; and  *)
(* a start() called while no connection is open attempts to open one: it  *)
(* either fails again or emits 'started', and never returns as a no-op.    *)
C20_FailedStartInactive ==
    /\ [][(call' = "start" /\ ret' = "error")
            => /\ ~isRunning'
               /\ monitors' = monitors
               /\ emitted' = << >>]_vars
    /\ [][(call' = "start" /\ session \notin conns)
            => (ret' = "error" \/ emitted' = << "started" >>)]_vars

(* the captures of auto-profile cycles that are running on session n *)
RunningCycles(n) ==
    {i \in 1..Len(captures) :
        /\ captures[i].auto
        /\ captures[i].sess = n
        /\ captures[i].phase \in {"timer", "write"}}

(* C21: auto-profile mode by itself never has two captures in flight on    *)
(* the same session, whatever profileDuration and heapSnapshotInterval     *)
(* are configured.                                                         *)
C21_OneCycleInFlight ==
    \A n \in 1..created : Cardinality(RunningCycles(n)) <= 1


(* A 'started' event is on record with no 'stopped' after it: 'started'    *)
(* is emitted only by the start() that opens the connection, and only the  *)
(* stop() that emits 'stopped' closes it.                                  *)
StartedUnmatched == session \in conns

CaptureSucceeds ==
    /\ call' \in {"written", "memoryWritten"}
    /\ ret' = "resolved"

(* C23: two successful captures of the same type, two begun at the same    *)
(* clock reading included, are registered under distinct identifiers: a    *)
(* capture that succeeds adds an entry to the registry and a file to the   *)
(* output directory, and replaces neither an entry nor a file that is      *)
(* already there.                                                          *)
C23_DistinctIds ==
    [][CaptureSucceeds
         => /\ DOMAIN profiles \subseteq DOMAIN profiles'
            /\ DOMAIN profiles' # DOMAIN profiles
            /\ files \subseteq files'
            /\ files' # files]_vars


(* the snapshots whose chunk listener has still to hand over its count *)
SnapshotsInFlight == {i \in 1..Len(captures) : captures[i].type = "heap"}

(* C24: each chunk of a heap snapshot is counted in exactly one snapshot,  *)
(* the one it was produced for: the count of a snapshot in flight is the   *)
(* byte length of its own chunks, whatever later snapshot is taken on the  *)
(* same session, and the size it is registered with is that byte length.   *)
C24_ChunksOwnSnapshot ==
    /\ [](\A i \in SnapshotsInFlight :
             captures[i].size = TotalBytes(captures[i].own))
    /\ [][\A i \in SnapshotsInFlight :
             (call' = "written" /\ captures' = Remove(captures, i))
                => profiles'[ProfileId("heap", captures[i].at)].size
                     = TotalBytes(captures[i].own)]_vars

====
